---- MODULE Spec2Model ----
(***************************************************************************)
(* A model of the pool core of bb8 (src/bb8/src/inner.rs): PoolInternals   *)
(* (the lock-protected data), PoolInner (get, put_back, reap, the          *)
(* connector worker add_connection) and the callers that use them.         *)
(*                                                                         *)
(* Every action is one critical section of the pool lock (or one step of   *)
(* a task between two such sections); the places where the code releases   *)
(* the lock or awaits are the places where the model's actions interleave. *)
(***************************************************************************)
EXTENDS Integers, Sequences, FiniteSets, Bags, TLC

\* ---------------------------------------------------------------- bounds

\* Number of concurrent callers of get / put_back.
NumCallers == 2
\* Largest max_size a configuration is drawn with.
MaxSize == 2
\* Longest waiters queue (stale senders stay queued until a put meets them).
MaxWaiters == 2
\* Last instant of the clock.
MaxTime == 2
\* connection_timeout, idle_timeout and max_lifetime (when set), in ticks.
ConnTimeoutTicks == 1
IdleTimeoutTicks == 1
LifetimeTicks == 2

\* Largest connection_timeout, in milliseconds, of the backoff's
\* specification, and how long a connect() may take there.
MaxTimeoutMs == 2000
ConnectMs == 50

Callers == 1..NumCallers

\* A sender of waiters whose receiver was dropped: send on it fails.
Gone == 0

VARIABLES
    statics,      \* Builder: the immutable configuration
    internals,    \* PoolInternals: waiters, conns, num_conns, pending_conns
    connectors,   \* bag of add_connection tasks, one per approval
    now,          \* Instant::now()
    pc,           \* each caller's position in get()
    held,         \* each caller's connection (Option<Conn>, as a set)
    rx,           \* each parked caller's one-shot slot (Option<Conn>)
    parked,       \* the instant each parked caller began its bounded wait
    result,       \* what each caller's last get() returned
    ahead,        \* callers that were parked when this caller's get() began
    handles,      \* the public handles of the pool (strong references)
    delay         \* the backoff delay of a connector in its retry loop

vars == <<statics, internals, connectors, now, pc, held, rx, parked, result,
          ahead, handles, delay>>

\* ------------------------------------------------------- Option, records

Some(x) == {x}
None == {}
Unwrap(o) == CHOOSE x \in o : TRUE

\* Conn { conn, birth }
Conn(id, birth) == [id |-> id, birth |-> birth]

\* impl From<Conn> for IdleConn: idle_start = Instant::now()
IdleConnFrom(conn, t) == [conn |-> conn, idle_start |-> t]

\* PoolInternals::default()
DefaultInternals ==
    [waiters |-> <<>>, conns |-> <<>>, num_conns |-> 0, pending_conns |-> 0]

Min(a, b) == IF a < b THEN a ELSE b

\* ------------------------------------------------- PoolInternals methods

\* pop that reads the front record and leaves it in conns
pop_keeps_front(s) ==
    IF s.conns = <<>>
    THEN [s |-> s, conn |-> None]
    ELSE [s |-> s, conn |-> Some(Head(s.conns).conn)]

\* pop that takes the newest idle record (pop_back)
pop_takes_back(s) ==
    IF s.conns = <<>>
    THEN [s |-> s, conn |-> None]
    ELSE [s |-> [s EXCEPT !.conns = SubSeq(@, 1, Len(@) - 1)],
          conn |-> Some(s.conns[Len(s.conns)].conn)]

\* fn pop: conns.pop_front().map(|idle| idle.conn)
pop(s) ==
    IF s.conns = <<>>
    THEN [s |-> s, conn |-> None]
    ELSE [s |-> [s EXCEPT !.conns = Tail(@)], conn |-> Some(Head(s.conns).conn)]

\* a send whose result is taken to be Ok whatever the receiver's state
send_always_ok(waiter) == TRUE

\* oneshot::Sender::send: Err(conn) when the receiver is gone
send_ok(waiter) == waiter # Gone

\* a put loop that takes waiters from the back (pop_back)
RECURSIVE put_loop_lifo(_, _)
put_loop_lifo(s, conn) ==
    IF s.waiters # <<>>
    THEN LET waiter == s.waiters[Len(s.waiters)]
             s1 == [s EXCEPT !.waiters = SubSeq(@, 1, Len(@) - 1)]
         IN  IF send_ok(waiter)
             THEN [s |-> s1, sent |-> Some(waiter)]
             ELSE put_loop_lifo(s1, conn)
    ELSE [s |-> [s EXCEPT !.conns = Append(@, conn)], sent |-> None]

\* the loop of fn put: hand to the first waiter whose send succeeds, else idle
RECURSIVE put_loop(_, _)
put_loop(s, conn) ==
    IF s.waiters # <<>>
    THEN LET waiter == Head(s.waiters)
             s1 == [s EXCEPT !.waiters = Tail(@)]
         IN  IF send_ok(waiter)
             THEN [s |-> s1, sent |-> Some(waiter)]
             ELSE put_loop(s1, conn)
    ELSE [s |-> [s EXCEPT !.conns = Append(@, conn)], sent |-> None]

\* put that does the approval accounting whether or not it got an approval
put_account_always(s, approval) ==
    [s EXCEPT !.pending_conns = @ - 1, !.num_conns = @ + 1]

\* the approval accounting of fn put
put_account(s, approval) ==
    IF approval
    THEN [s EXCEPT !.pending_conns = @ - 1, !.num_conns = @ + 1]
    ELSE s

\* fn put
put(s, conn, approval) == put_loop(put_account(s, approval), conn)

\* connect_failed that forgets the decrement
connect_failed_forgets(s) == s

\* fn connect_failed
connect_failed(s) == [s EXCEPT !.pending_conns = @ - 1]

\* dropped that forgets the decrement
dropped_forgets(s, num) == s

\* fn dropped
dropped(s, num) == [s EXCEPT !.num_conns = @ - num]

\* approvals that forgets to clamp num to the headroom
approvals_unclamped(s, config, num) ==
    [s |-> [s EXCEPT !.pending_conns = @ + num], num |-> num]

\* fn approvals: clamp num to the headroom, add it to pending_conns
approvals(s, config, num) ==
    LET current == s.num_conns + s.pending_conns
        allowed == IF current < config.max_size
                   THEN config.max_size - current
                   ELSE 0
        n == Min(num, allowed)
    IN  [s |-> [s EXCEPT !.pending_conns = @ + n], num |-> n]

\* wanted that forgets the approvals already pending
wanted_num_ignores_pending(s, config) ==
    LET available == Len(s.conns)
        min_idle == IF config.min_idle = None THEN 0 ELSE Unwrap(config.min_idle)
    IN  IF available < min_idle THEN min_idle - available ELSE 0

\* the number fn wanted asks approvals for
wanted_num(s, config) ==
    LET available == Len(s.conns) + s.pending_conns
        min_idle == IF config.min_idle = None THEN 0 ELSE Unwrap(config.min_idle)
    IN  IF available < min_idle THEN min_idle - available ELSE 0

\* fn wanted
wanted(s, config) == approvals(s, config, wanted_num(s, config))

\* fn push_waiter
push_waiter(s, waiter, config) ==
    approvals([s EXCEPT !.waiters = Append(@, waiter)], config, 1)

\* a retain closure that compares with <= instead of <
keep_at_limit(idle, config, t) ==
    /\ \A timeout \in config.idle_timeout : t - idle.idle_start <= timeout
    /\ \A lifetime \in config.max_lifetime : t - idle.conn.birth <= lifetime

\* the closure of conns.retain in fn reap
keep(idle, config, t) ==
    /\ \A timeout \in config.idle_timeout : t - idle.idle_start < timeout
    /\ \A lifetime \in config.max_lifetime : t - idle.conn.birth < lifetime

\* VecDeque::retain
RECURSIVE retain(_, _, _)
retain(q, config, t) ==
    IF q = <<>> THEN <<>>
    ELSE IF keep(Head(q), config, t)
         THEN <<Head(q)>> \o retain(Tail(q), config, t)
         ELSE retain(Tail(q), config, t)

\* reap that reports the length before retain instead of the difference
reap_counts_before(s, config, t) ==
    LET before == Len(s.conns)
        kept == retain(s.conns, config, t)
    IN  [s |-> [s EXCEPT !.conns = kept], dropped |-> before]

\* fn reap (PoolInternals)
reap(s, config, t) ==
    LET before == Len(s.conns)
        kept == retain(s.conns, config, t)
    IN  [s |-> [s EXCEPT !.conns = kept], dropped |-> before - Len(kept)]

\* fn state
state(s) == [connections |-> s.num_conns, idle_connections |-> Len(s.conns)]

\* ----------------------------------------------------- PoolInner helpers

\* fn drop_connections: dropped, then spawn_replenishing_locked (wanted)
drop_connections(s, config, num) == wanted(dropped(s, num), config)

\* fn put_back with a healthy connection: put(conn.into(), None)
put_back_healthy(s, conn, t) == put(s, IdleConnFrom(conn, t), FALSE)

\* fn reap (PoolInner): internals.reap, then drop_connections(dropped)
inner_reap(s, config, t) ==
    LET r == reap(s, config, t)
    IN  drop_connections(r.s, config, r.dropped)

\* A connector task as spawned: it has not yet recorded its start.
Spawned == [start |-> None]

\* a dispatcher that returns without spawning any add_connection future
spawn_none(bag, num) == bag

\* a dispatcher that spawns one add_connection future for the whole batch
spawn_single(bag, num) ==
    IF num = 0 THEN bag ELSE bag (+) SetToBag({Spawned})

\* fn spawn_replenishing_approvals / replenish_idle_connections:
\* one add_connection future for each approval
spawn_replenishing_approvals(bag, num) ==
    IF num = 0 THEN bag ELSE bag (+) [x \in {Spawned} |-> num]

\* ------------------------------------------------------------ the state

\* The connection ids that exist somewhere.
IdsIdle == {internals.conns[i].conn.id : i \in 1..Len(internals.conns)}
IdsHeld == {x.id : x \in UNION {held[c] : c \in Callers}}
IdsSent == {x.id : x \in UNION {rx[c] : c \in Callers}}
IdsLive == IdsIdle \cup IdsHeld \cup IdsSent

\* Manager::connect() returns a connection that is no existing one.
FreshId == CHOOSE i \in 1..(Cardinality(IdsLive) + 1) : i \notin IdsLive

Counters(s) == <<s.num_conns, s.pending_conns, Len(s.conns)>>

\* The parked callers whose receiver is alive and still empty.
ParkedLive == {c \in Callers : pc[c] = "waiting" /\ rx[c] = None}

\* Dropping the receiver of caller c makes the send of its sender fail.
drop_receiver(q, c) == [i \in DOMAIN q |-> IF q[i] = c THEN Gone ELSE q[i]]

\* `ahead` once the callers of set gone are no longer parked (served, timed
\* out or cancelled): they are ahead of nobody whose get() is still running.
Unpark(a, gone) == [b \in Callers |->
                      IF pc[b] \in {"holding", "idle"} THEN a[b]
                      ELSE a[b] \ gone]

\* Builder: max_size > 0, min_idle <= max_size
Configs ==
    {[max_size |-> m, min_idle |-> i, idle_timeout |-> it, max_lifetime |-> ml,
      connection_timeout |-> ConnTimeoutTicks, test_on_check_out |-> t] :
        m \in 1..MaxSize, i \in {None} \cup {Some(k) : k \in 1..MaxSize},
        it \in {None, Some(IdleTimeoutTicks)},
        ml \in {None, Some(LifetimeTicks)}, t \in BOOLEAN}

\* PoolInner::new
Init ==
    /\ statics \in {cfg \in Configs :
                      \A k \in cfg.min_idle : k <= cfg.max_size}
    /\ internals = DefaultInternals
    /\ connectors = EmptyBag
    /\ now = 0
    /\ pc = [c \in Callers |-> "idle"]
    /\ held = [c \in Callers |-> None]
    /\ rx = [c \in Callers |-> None]
    /\ parked = [c \in Callers |-> 0]
    /\ result = [c \in Callers |-> "none"]
    /\ ahead = [c \in Callers |-> {}]
    /\ handles = 1
    /\ delay = 0

\* ------------------------------------------------------------- get()

\* The locked block at the top of get's loop: pop, and on Some replenish.
\* Without test_on_check_out the connection is returned at once.
GetPop(c) ==
    /\ pc[c] \in {"idle", "retry"}
    /\ LET p == pop(internals)
           w == wanted(p.s, statics)
       IN  IF p.conn # None
           THEN /\ internals' = w.s
                /\ connectors' = spawn_replenishing_approvals(connectors, w.num)
                /\ held' = [held EXCEPT ![c] = p.conn]
                /\ pc' = [pc EXCEPT ![c] = IF statics.test_on_check_out
                                           THEN "validating" ELSE "holding"]
                /\ result' = [result EXCEPT ![c] = IF statics.test_on_check_out
                                                   THEN "none" ELSE "Ok"]
           ELSE /\ pc' = [pc EXCEPT ![c] = "park"]
                /\ result' = [result EXCEPT ![c] = "none"]
                /\ UNCHANGED <<internals, connectors, held>>
    /\ ahead' = IF pc[c] = "idle" THEN [ahead EXCEPT ![c] = ParkedLive] ELSE ahead
    /\ UNCHANGED <<handles, delay, statics, now, rx, parked>>

\* manager.is_valid returned Ok(()): return Ok(conn)
IsValidOk(c) ==
    /\ pc[c] = "validating"
    /\ pc' = [pc EXCEPT ![c] = "holding"]
    /\ result' = [result EXCEPT ![c] = "Ok"]
    /\ UNCHANGED <<handles, delay, statics, internals, connectors, now, held, rx, parked, ahead>>

\* manager.is_valid returned Err: drop the connection, drop_connections(1),
\* continue the loop
IsValidErr(c) ==
    /\ pc[c] = "validating"
    /\ LET d == drop_connections(internals, statics, 1)
       IN  /\ internals' = d.s
           /\ connectors' = spawn_replenishing_approvals(connectors, d.num)
    /\ held' = [held EXCEPT ![c] = None]
    /\ pc' = [pc EXCEPT ![c] = "retry"]
    /\ UNCHANGED <<handles, delay, statics, now, rx, parked, result, ahead>>

\* The slow path: oneshot::channel, push_waiter under the lock, dispatch of
\* the approval, and the start of timeout(connection_timeout, rx).
PushWaiter(c) ==
    /\ pc[c] = "park"
    /\ Len(internals.waiters) < MaxWaiters
    /\ LET r == push_waiter(internals, c, statics)
       IN  /\ internals' = r.s
           /\ connectors' = spawn_replenishing_approvals(connectors, r.num)
    /\ pc' = [pc EXCEPT ![c] = "waiting"]
    /\ parked' = [parked EXCEPT ![c] = now]
    /\ UNCHANGED <<handles, delay, statics, now, held, rx, result, ahead>>

\* timeout(..).await resolved Ok(Ok(conn))
Receive(c) ==
    /\ pc[c] = "waiting"
    /\ rx[c] # None
    /\ held' = [held EXCEPT ![c] = rx[c]]
    /\ rx' = [rx EXCEPT ![c] = None]
    /\ pc' = [pc EXCEPT ![c] = "holding"]
    /\ result' = [result EXCEPT ![c] = "Ok"]
    /\ parked' = [parked EXCEPT ![c] = 0]
    /\ UNCHANGED <<handles, delay, statics, internals, connectors, now, ahead>>

\* a get that reports the end of the bounded wait as a Manager error
timed_out_as_user == "User"

\* What get returns when the bounded wait ends without a connection.
timed_out == "TimedOut"

\* timeout(..).await resolved Err(Elapsed): the receiver found nothing, the
\* deadline has passed; get returns Err(TimedOut) and drops the receiver.
Timeout(c) ==
    /\ pc[c] = "waiting"
    /\ rx[c] = None
    /\ now - parked[c] >= statics.connection_timeout
    /\ internals' = [internals EXCEPT !.waiters = drop_receiver(@, c)]
    /\ pc' = [pc EXCEPT ![c] = "idle"]
    /\ result' = [result EXCEPT ![c] = timed_out]
    /\ parked' = [parked EXCEPT ![c] = 0]
    /\ ahead' = [Unpark(ahead, {c}) EXCEPT ![c] = {}]
    /\ UNCHANGED <<handles, delay, statics, connectors, now, held, rx>>

\* The future of get() is dropped at one of its awaits (is_valid, or the
\* bounded wait): its connection or its receiver, with whatever was sent to
\* it, is dropped with it. No pool method runs.
Cancel(c) ==
    /\ pc[c] \in {"validating", "waiting"}
    /\ internals' = [internals EXCEPT !.waiters = drop_receiver(@, c)]
    /\ pc' = [pc EXCEPT ![c] = "idle"]
    /\ held' = [held EXCEPT ![c] = None]
    /\ rx' = [rx EXCEPT ![c] = None]
    /\ result' = [result EXCEPT ![c] = "none"]
    /\ parked' = [parked EXCEPT ![c] = 0]
    /\ ahead' = [Unpark(ahead, {c}) EXCEPT ![c] = {}]
    /\ UNCHANGED <<handles, delay, statics, connectors, now>>

\* ----------------------------------------------------------- put_back

\* The one-shot slots after a put that sent conn to the waiters of set sent.
deliver(slots, sent, conn) ==
    [c \in Callers |-> IF c \in sent THEN Some(conn) ELSE slots[c]]

\* put_back of a connection the manager finds broken: drop_connections(1)
PutBackBroken(c) ==
    /\ pc[c] = "holding"
    /\ LET d == drop_connections(internals, statics, 1)
       IN  /\ internals' = d.s
           /\ connectors' = spawn_replenishing_approvals(connectors, d.num)
    /\ pc' = [pc EXCEPT ![c] = "idle"]
    /\ held' = [held EXCEPT ![c] = None]
    /\ result' = [result EXCEPT ![c] = "none"]
    /\ ahead' = [ahead EXCEPT ![c] = {}]
    /\ UNCHANGED <<handles, delay, statics, now, rx, parked>>

\* put_back of a healthy connection: put(conn.into(), None)
PutBackHealthy(c) ==
    /\ pc[c] = "holding"
    /\ LET conn == Unwrap(held[c])
           r == put_back_healthy(internals, conn, now)
       IN  /\ internals' = r.s
           /\ rx' = deliver(rx, r.sent, conn)
           /\ ahead' = [Unpark(ahead, r.sent) EXCEPT ![c] = {}]
    /\ pc' = [pc EXCEPT ![c] = "idle"]
    /\ held' = [held EXCEPT ![c] = None]
    /\ result' = [result EXCEPT ![c] = "none"]
    /\ UNCHANGED <<handles, delay, statics, connectors, now, parked>>

\* ------------------------------------------- add_connection (connector)

Connecting == {k \in BagToSet(connectors) : k.start # None}

\* The task is first polled: the upgrade succeeds (the task owns a clone of
\* the pool), start = Instant::now().
ConnectorStart ==
    /\ BagIn(Spawned, connectors)
    /\ connectors' = (connectors (-) SetToBag({Spawned}))
                        (+) SetToBag({[start |-> Some(now)]})
    /\ UNCHANGED <<handles, delay, statics, internals, now, pc, held, rx, parked, result, ahead>>

\* manager.connect() returned Ok(conn): put(IdleConn, Some(approval))
ConnectOk ==
    \E k \in Connecting :
        LET conn == Conn(FreshId, now)
            r == put(internals, IdleConnFrom(conn, now), TRUE)
        IN  /\ internals' = r.s
            /\ rx' = deliver(rx, r.sent, conn)
            /\ ahead' = Unpark(ahead, r.sent)
            /\ connectors' = connectors (-) SetToBag({k})
            /\ UNCHANGED <<handles, delay, statics, now, pc, held, parked, result>>

\* manager.connect() returned Err(e) inside the retry window: back off and
\* call connect again; the error is dropped.
ConnectRetry ==
    \E k \in Connecting :
        /\ ~(now - Unwrap(k.start) > statics.connection_timeout)
        /\ UNCHANGED vars

\* manager.connect() returned Err(e) after the retry window: connect_failed,
\* and the error returned to the dispatcher, which gives it to the error sink.
ConnectGiveUp ==
    \E k \in Connecting :
        /\ now - Unwrap(k.start) > statics.connection_timeout
        /\ internals' = connect_failed(internals)
        /\ connectors' = connectors (-) SetToBag({k})
        /\ UNCHANGED <<handles, delay, statics, now, pc, held, rx, parked, result, ahead>>

\* ---------------------------------------------------- reaper, replenish

\* One tick of schedule_reaping (scheduled only when a limit is set):
\* PoolInner::reap = internals.reap, then drop_connections(dropped).
Reap ==
    /\ statics.max_lifetime # None \/ statics.idle_timeout # None
    /\ LET d == inner_reap(internals, statics, now)
       IN  /\ internals' = d.s
           /\ connectors' = spawn_replenishing_approvals(connectors, d.num)
    /\ UNCHANGED <<handles, delay, statics, now, pc, held, rx, parked, result, ahead>>

\* fn spawn_replenishing: wanted() under the lock, dispatch
SpawnReplenishing ==
    /\ LET w == wanted(internals, statics)
       IN  /\ internals' = w.s
           /\ connectors' = spawn_replenishing_approvals(connectors, w.num)
    /\ UNCHANGED <<handles, delay, statics, now, pc, held, rx, parked, result, ahead>>

\* Time passes.
Advance ==
    /\ now < MaxTime
    /\ now' = now + 1
    /\ UNCHANGED <<handles, delay, statics, internals, connectors, pc, held, rx, parked,
                   result, ahead>>

Next ==
    \/ \E c \in Callers : GetPop(c)
    \/ \E c \in Callers : IsValidOk(c)
    \/ \E c \in Callers : IsValidErr(c)
    \/ \E c \in Callers : PushWaiter(c)
    \/ \E c \in Callers : Receive(c)
    \/ \E c \in Callers : Timeout(c)
    \/ \E c \in Callers : Cancel(c)
    \/ \E c \in Callers : PutBackBroken(c)
    \/ \E c \in Callers : PutBackHealthy(c)
    \/ ConnectorStart
    \/ ConnectOk
    \/ ConnectRetry
    \/ ConnectGiveUp
    \/ Reap
    \/ SpawnReplenishing
    \/ Advance

Spec == Init /\ [][Next]_vars

\* ------------------------------------------------------------ claims

\* C1: at every moment the lock is released,
\* num_conns + pending_conns <= max_size.
C1_CapacityBound ==
    internals.num_conns + internals.pending_conns <= statics.max_size

\* The pool is full, with a connection, a pending approval, and a parked
\* caller whose push_waiter found no headroom or is still waiting.
C1_Witness ==
    /\ internals.num_conns + internals.pending_conns = statics.max_size
    /\ internals.num_conns >= 1
    /\ internals.pending_conns >= 1
    /\ ParkedLive # {}

\* C2: the idle records never outnumber num_conns, so every snapshot of
\* state() has idle_connections <= connections.
C2_IdleWithinConns ==
    /\ Len(internals.conns) <= internals.num_conns
    /\ state(internals).idle_connections <= state(internals).connections

\* After a reaper tick or a drop left fewer connections than max_size, all
\* of them idle, at a later instant.
C2_Witness ==
    /\ state(internals).idle_connections = state(internals).connections
    /\ state(internals).connections >= 1
    /\ state(internals).connections < statics.max_size
    /\ now >= IdleTimeoutTicks
    /\ \E c \in Callers : result[c] = timed_out

\* The number of places a connection id is in: positions of idle, callers
\* holding it, one-shot slots it was sent to.
Places(id) ==
    Cardinality({i \in 1..Len(internals.conns) : internals.conns[i].conn.id = id})
    + Cardinality({c \in Callers : \E x \in held[c] : x.id = id})
    + Cardinality({c \in Callers : \E x \in rx[c] : x.id = id})

\* C3: every connection is in exactly one place: the idle deque, the hands
\* of one caller, or the one-shot slot of one waiter.
C3_OneHolder == \A id \in IdsLive : Places(id) = 1

\* One connection is held by a caller while another one sits in the slot of
\* a parked caller.
C3_Witness ==
    \E c1, c2 \in Callers :
        /\ c1 # c2
        /\ held[c1] # None /\ pc[c1] = "holding"
        /\ rx[c2] # None /\ pc[c2] = "waiting"

\* The position in q of the earliest-parked waiter whose receiver is alive,
\* 0 when there is none.
FirstLive(q) ==
    IF \E i \in 1..Len(q) : q[i] # Gone
    THEN CHOOSE i \in 1..Len(q) : q[i] # Gone /\ \A j \in 1..(i - 1) : q[j] = Gone
    ELSE 0

\* A step in which a connection is offered to the hand-off policy: a
\* connector succeeded (num_conns grows), or a caller returned a healthy
\* connection (it lets go of it and num_conns keeps its value).
ConnectorSucceeded == internals'.num_conns = internals.num_conns + 1
HealthyReturn(c) ==
    /\ pc[c] = "holding" /\ pc'[c] = "idle"
    /\ internals'.num_conns = internals.num_conns
Offered == ConnectorSucceeded \/ \E c \in Callers : HealthyReturn(c)

\* C4: a connection offered while live waiters are parked goes to the
\* earliest-parked waiter whose receiver is alive; that waiter and every
\* waiter parked before it leave the queue, and nobody else receives anything.
C4_Step ==
    LET q == internals.waiters
        k == FirstLive(q)
    IN  (Offered /\ k # 0) =>
            /\ rx[q[k]] = None /\ rx'[q[k]] # None
            /\ \A c \in Callers \ {q[k]} : rx'[c] = rx[c]
            /\ internals'.waiters = SubSeq(q, k + 1, Len(q))
            /\ internals'.conns = internals.conns

C4_WaitersFifo == [][C4_Step]_vars

\* Of two parked callers the earlier has been sent a connection and the
\* later is still queued.
C4_Witness ==
    \E c1, c2 \in Callers :
        /\ c1 # c2
        /\ pc[c1] = "waiting" /\ rx[c1] # None
        /\ pc[c2] = "waiting" /\ rx[c2] = None
        /\ internals.waiters = <<c2>>
        /\ parked[c1] < parked[c2]

\* C5: no get() that started after a caller was parked obtains a connection
\* while that caller is still parked (not served, timed out or cancelled).
C5_NoOvertaking == \A b \in Callers : pc[b] = "holding" => ahead[b] = {}

\* What the configuration and the counters say a call of wanted() mints:
\* the shortfall of idle + pending below min_idle, within the headroom.
MinIdle == IF statics.min_idle = None THEN 0 ELSE Unwrap(statics.min_idle)
Max(a, b) == IF a > b THEN a ELSE b
Minted(num, pending, idle) ==
    Min(Max(MinIdle - (idle + pending), 0), Max(statics.max_size - (num + pending), 0))

\* The first pop of a get() found a connection: the fast path.
FastPath(c) == pc[c] = "idle" /\ held'[c] # None

\* The internals after the caller of a fast-path get() step returns the
\* connection, healthy, with nothing in between.
RoundTrip(c) == put_back_healthy(internals', Unwrap(held'[c]), now).s

\* C6 as stated: a fast-path get() followed immediately by put_back of the
\* healthy connection leaves num_conns, pending_conns and idle.len() as
\* they were before the get().
C6_RoundTripUnchanged ==
    [][\A c \in Callers :
          FastPath(c) => Counters(RoundTrip(c)) = Counters(internals)]_vars

\* C6 amended: the round trip leaves num_conns unchanged, raises
\* pending_conns by the approvals get's wanted() minted, and restores
\* idle.len() unless a live waiter is parked, who is then handed the
\* connection (idle.len() ends one less).
C6_RoundTrip ==
    [][\A c \in Callers :
          FastPath(c) =>
              LET s0 == internals
                  s2 == RoundTrip(c)
              IN  /\ s2.num_conns = s0.num_conns
                  /\ s2.pending_conns = s0.pending_conns
                        + Minted(s0.num_conns, s0.pending_conns, Len(s0.conns) - 1)
                  /\ Len(s2.conns) = IF FirstLive(s0.waiters) = 0
                                     THEN Len(s0.conns)
                                     ELSE Len(s0.conns) - 1]_vars

\* After a round trip with min_idle set and headroom: the connection is
\* idle again, nobody waits, and the approval the get minted is pending
\* on top of a satisfied min_idle.
C6_Witness ==
    /\ statics.min_idle # None
    /\ \A c \in Callers : pc[c] = "idle" /\ result[c] = "none"
    /\ internals.waiters = <<>>
    /\ Len(internals.conns) >= MinIdle
    /\ internals.pending_conns >= 1

\* No idle record is expired at instant t.
NoExpired(s, t) == \A i \in 1..Len(s.conns) : keep(s.conns[i], statics, t)

\* C7 as stated: two reaper ticks with nothing in between and no expired
\* record leave idle, waiters, num_conns and pending_conns unchanged.
C7_ReapTwiceUnchanged ==
    [][(Reap /\ NoExpired(internals, now)) =>
          inner_reap(internals', statics, now).s = internals]_vars

\* C7 amended: the two ticks leave idle, waiters and num_conns unchanged;
\* the first raises pending_conns by the approvals wanted() mints, and the
\* second changes nothing.
C7_ReapIdempotent ==
    [][(Reap /\ NoExpired(internals, now)) =>
          /\ internals'.conns = internals.conns
          /\ internals'.waiters = internals.waiters
          /\ internals'.num_conns = internals.num_conns
          /\ internals'.pending_conns = internals.pending_conns
                + Minted(internals.num_conns, internals.pending_conns,
                         Len(internals.conns))
          /\ inner_reap(internals', statics, now).s = internals']_vars

\* After connectors gave up and a tick replenished: the reaper is on,
\* nothing is expired, and min_idle is met only thanks to approvals whose
\* connectors were spawned after the retry window of the first ones.
C7_Witness ==
    /\ statics.max_lifetime # None \/ statics.idle_timeout # None
    /\ now > ConnTimeoutTicks
    /\ NoExpired(internals, now)
    /\ internals.num_conns = 0
    /\ internals.pending_conns = MinIdle
    /\ MinIdle >= 1
    /\ connectors = [x \in {Spawned} |-> MinIdle]
    /\ \A c \in Callers : pc[c] = "idle"

\* C8, one step: a get() that returns, returns Ok with a connection or
\* TimedOut; a parked caller returns the connection sent to its slot, and
\* TimedOut only with an empty slot once connection_timeout has elapsed; a
\* failed connect() of a connector changes no caller's slot or result.
C8_Step ==
    /\ \A c \in Callers :
          /\ (result'[c] # result[c] /\ result'[c] # "none") =>
                \/ /\ result'[c] = "Ok"
                   /\ held'[c] # None
                   /\ pc[c] = "waiting" => (rx[c] # None /\ held'[c] = rx[c])
                \/ /\ result'[c] = "TimedOut"
                   /\ pc[c] = "waiting" /\ rx[c] = None /\ held'[c] = None
                   /\ now - parked[c] >= statics.connection_timeout
          /\ (pc[c] = "waiting" /\ rx[c] # None /\ pc'[c] # "waiting"
                /\ result'[c] # "none") => result'[c] = "Ok"
    /\ (ConnectRetry \/ ConnectGiveUp) => UNCHANGED <<pc, held, rx, result>>

ValidationFailed(c) ==
    pc[c] = "validating" /\ pc'[c] \notin {"validating", "holding", "idle"}

\* C9: a connection whose is_valid check fails is dropped (it is in no
\* caller's hands and not in idle), num_conns goes down by exactly one,
\* wanted() approvals are minted and get() retries instead of failing. With
\* max_size = 1 the retry finds idle empty, parks with exactly one approval
\* pending, and (no live waiter ahead) the connector's new connection is
\* sent to this caller.
C9_Step ==
    \A c \in Callers :
        ValidationFailed(c) =>
            LET bad == Unwrap(held[c])
                s0 == internals
                s1 == internals'
                w == push_waiter(s1, c, statics).s
                r == put(w, IdleConnFrom(Conn(bad.id, now), now), TRUE)
            IN  /\ bad.id \notin IdsLive'
                /\ held'[c] = None /\ rx' = rx
                /\ pc'[c] = "retry" /\ result'[c] = "none"
                /\ s1.num_conns = s0.num_conns - 1
                /\ s1.pending_conns = s0.pending_conns
                      + Minted(s0.num_conns - 1, s0.pending_conns, Len(s0.conns))
                /\ s1.conns = s0.conns /\ s1.waiters = s0.waiters
                /\ statics.max_size = 1 =>
                      /\ pop(s1).conn = None
                      /\ w.num_conns = 0 /\ w.pending_conns = 1
                      /\ FirstLive(s1.waiters) = 0 =>
                            /\ r.sent = Some(c)
                            /\ r.s.num_conns = 1 /\ r.s.pending_conns = 0

ConnsLive ==
    {internals.conns[i].conn : i \in 1..Len(internals.conns)}
        \cup UNION {held[c] : c \in Callers} \cup UNION {rx[c] : c \in Callers}

\* The hand-off policy applied to connection x in this step: sent to the
\* earliest live waiter, the dead senders before it dropped from the queue,
\* or, with no live waiter, pushed to the back of idle.
HandedOff(x) ==
    LET q == internals.waiters
        k == FirstLive(q)
    IN  IF k # 0
        THEN /\ rx' = [rx EXCEPT ![q[k]] = Some(x)]
             /\ rx[q[k]] = None
             /\ internals'.conns = internals.conns
             /\ internals'.waiters = SubSeq(q, k + 1, Len(q))
        ELSE /\ rx' = rx
             /\ internals'.conns = Append(internals.conns, IdleConnFrom(x, now))
             /\ internals'.waiters = <<>>

\* C10, one step: the connection offered is not lost: it ends with exactly
\* one live waiter or at the back of idle.
C10_Step ==
    /\ ConnectorSucceeded =>
          \E x \in ConnsLive' \ ConnsLive :
              /\ ConnsLive' = ConnsLive \cup {x}
              /\ HandedOff(x)
    /\ \A c \in Callers :
          HealthyReturn(c) =>
              /\ ConnsLive' = ConnsLive
              /\ HandedOff(Unwrap(held[c]))

\* C10, the scenario: with a dead sender before a live waiter and two
\* approvals pending, the first connector's connection goes to the live
\* waiter and the second one's to idle.
C10_Scenario ==
    \A c \in Callers :
        (internals.waiters = <<Gone, c>> /\ internals.pending_conns >= 2) =>
            LET x1 == IdleConnFrom(Conn(FreshId, now), now)
                x2 == IdleConnFrom(Conn(FreshId + 1, now), now)
                r1 == put(internals, x1, TRUE)
                r2 == put(r1.s, x2, TRUE)
            IN  /\ r1.sent = Some(c) /\ r1.s.conns = internals.conns
                /\ r2.sent = None /\ r2.s.conns = Append(internals.conns, x2)
                /\ r2.s.waiters = <<>>
                /\ r2.s.num_conns = internals.num_conns + 2

\* C10: a healthy connection offered to the hand-off policy is never lost
\* to a waiter whose receiver is gone.
C10_NeverLost == []C10_Scenario /\ [][C10_Step]_vars

\* After the scenario: the first waiter cancelled, the second has a
\* connection in its slot, the other connection is idle, the queue is empty.
C10_Witness ==
    \E c1, c2 \in Callers :
        /\ c1 # c2
        /\ pc[c1] = "idle" /\ result[c1] = "none"
        /\ pc[c2] = "waiting" /\ rx[c2] # None
        /\ Len(internals.conns) = 1
        /\ internals.waiters = <<>>
        /\ internals.num_conns = 2 /\ internals.pending_conns = 0

\* ------------------------------------------- replenishment alone (C11)

\* PoolInner::new with min_idle set and neither idle_timeout nor
\* max_lifetime (nothing expires, no reaper is scheduled).
InitReplenish ==
    /\ Init
    /\ statics.min_idle # None
    /\ statics.idle_timeout = None
    /\ statics.max_lifetime = None

\* Nobody calls get(); every connect() returns Ok.
NextReplenish ==
    \/ SpawnReplenishing
    \/ ConnectorStart
    \/ ConnectOk
    \/ Advance

\* The runtime polls every spawned task and every connect() returns.
SpecReplenish ==
    /\ InitReplenish
    /\ [][NextReplenish]_vars
    /\ WF_vars(ConnectorStart)
    /\ WF_vars(ConnectOk)

\* idle.len() + pending_conns has reached min_idle.
Reached == Len(internals.conns) + internals.pending_conns >= MinIdle

\* Nothing is pending and state() reports min_idle connections, all idle.
Settled ==
    /\ internals.pending_conns = 0
    /\ state(internals).connections = MinIdle
    /\ state(internals).idle_connections = MinIdle

\* C11: with min_idle = k <= max_size, no checkouts, no expirations and
\* connect() always succeeding, a call of spawn_replenishing brings
\* idle.len() + pending_conns to at least k; from there the pool settles
\* with pending_conns = 0 and state() reporting k connections, k of them
\* idle; at no moment are there more than k.
C11_Replenishes ==
    /\ [][SpawnReplenishing => Reached']_vars
    /\ Reached ~> []Settled
    /\ [](/\ state(internals).connections + internals.pending_conns <= MinIdle
          /\ state(internals).idle_connections <= MinIdle)

\* min_idle = 2 is met by two idle connections made at different instants,
\* with nothing pending and no connector left.
C11_Witness ==
    /\ MinIdle = 2
    /\ Settled
    /\ connectors = EmptyBag
    /\ internals.conns[1].conn.birth < internals.conns[2].conn.birth

\* ------------------------------------------ every connect() fails (C12)

\* A timer is running: a connector is inside its retry window, or a parked
\* caller is before its deadline.
TimerRunning ==
    \/ \E k \in Connecting :
          ~(now - Unwrap(k.start) > statics.connection_timeout)
    \/ \E c \in Callers :
          pc[c] = "waiting" /\ now - parked[c] < statics.connection_timeout

\* Time passes; the clock goes beyond MaxTime only while a timer runs.
Elapse ==
    /\ now < MaxTime \/ TimerRunning
    /\ now' = now + 1
    /\ UNCHANGED <<handles, delay, statics, internals, connectors, pc, held,
                   rx, parked, result, ahead>>

\* PoolInner::new with neither idle_timeout nor max_lifetime: no reaper is
\* scheduled.
InitFailing ==
    /\ Init
    /\ statics.idle_timeout = None
    /\ statics.max_lifetime = None

\* A caller's one call of get(): the first pop.
GetOnce(c) ==
    /\ pc[c] = "idle"
    /\ result[c] = "none"
    /\ GetPop(c)

\* The pool is empty and stays so: every connect() returns Err, whether
\* inside the retry window (ConnectRetry) or after it (ConnectGiveUp).
NextFailing ==
    \/ \E c \in Callers : GetOnce(c)
    \/ \E c \in Callers : PushWaiter(c)
    \/ \E c \in Callers : Timeout(c)
    \/ ConnectorStart
    \/ ConnectRetry
    \/ ConnectGiveUp
    \/ Elapse

\* Callers run on, timers fire, spawned tasks are polled, connect() returns.
SpecFailing ==
    /\ InitFailing
    /\ [][NextFailing]_vars
    /\ \A c \in Callers : WF_vars(PushWaiter(c)) /\ WF_vars(Timeout(c))
    /\ WF_vars(ConnectorStart)
    /\ WF_vars(ConnectGiveUp)
    /\ WF_vars(Elapse)

\* C12, one step: pending_conns goes down only by one, for a connector whose
\* retry window has exceeded connection_timeout and which then ends, and
\* num_conns keeps its value.
C12_Step ==
    internals'.pending_conns < internals.pending_conns =>
        /\ internals'.pending_conns = internals.pending_conns - 1
        /\ internals'.num_conns = internals.num_conns
        /\ \E k \in Connecting :
              /\ now - Unwrap(k.start) > statics.connection_timeout
              /\ connectors' = connectors (-) SetToBag({k})

\* C12: when every connect() fails, a get() on the empty pool resolves to
\* TimedOut, every connector gives up after its retry window, and
\* pending_conns returns to 0 with num_conns unchanged.
C12_AllFail ==
    /\ \A c \in Callers :
          (pc[c] # "idle") ~> (pc[c] = "idle" /\ result[c] = "TimedOut")
    /\ (connectors # EmptyBag) ~> (connectors = EmptyBag)
    /\ <>[](internals.pending_conns = 0)
    /\ [](internals.num_conns = 0)
    /\ [][C12_Step]_vars

\* Every caller's get() timed out, every connector gave up, the last one
\* after the clock passed MaxTime; the stale senders are still queued.
C12_Witness ==
    /\ \A c \in Callers : pc[c] = "idle" /\ result[c] = "TimedOut"
    /\ Len(internals.waiters) = NumCallers
    /\ connectors = EmptyBag
    /\ internals.pending_conns = 0 /\ internals.num_conns = 0
    /\ now > MaxTime

\* ------------------------------------------------------- claims, C13 on

\* The approvals minted and not yet resolved: one add_connection task each.
Unresolved == BagCardinality(connectors)

\* C13, one step: an approval is resolved once, by success (pending_conns - 1
\* and num_conns + 1 in the same step) or by give-up (pending_conns - 1
\* only); approvals are minted together with their add_connection tasks.
C13_Step ==
    LET s0 == internals
        s1 == internals'
    IN  /\ s1.pending_conns < s0.pending_conns =>
              /\ s1.pending_conns = s0.pending_conns - 1
              /\ s1.num_conns \in {s0.num_conns, s0.num_conns + 1}
              /\ Unresolved' = Unresolved - 1
        /\ s1.num_conns > s0.num_conns =>
              /\ s1.num_conns = s0.num_conns + 1
              /\ s1.pending_conns = s0.pending_conns - 1
        /\ s1.pending_conns > s0.pending_conns =>
              /\ Unresolved' - Unresolved = s1.pending_conns - s0.pending_conns
              /\ s1.num_conns <= s0.num_conns

\* C13: pending_conns is the number of minted approvals whose connector has
\* not resolved; each approval is resolved exactly once; neither counter is
\* decremented at zero.
C13_ApprovalsExact ==
    /\ [](/\ internals.pending_conns = Unresolved
          /\ internals.pending_conns >= 0
          /\ internals.num_conns >= 0)
    /\ [][C13_Step]_vars

\* One approval was resolved by success, and another, minted later, is
\* with a connector in its retry loop.
C13_Witness ==
    /\ internals.num_conns = 1
    /\ internals.pending_conns = 1
    /\ \E k \in Connecting : Unwrap(k.start) > 0 /\ connectors = SetToBag({k})

\* ---------------------------------- the connector's backoff alone (C14)
\* In this specification durations and instants are in microseconds, so
\* that connection_timeout / 2 is exact for every whole millisecond.

\* Duration::from_millis
Millis(n) == n * 1000

\* The two assignments of the Err branch of add_connection:
\* delay = max(200ms, delay); delay = min(connection_timeout / 2, delay * 2)
backoff(d, connection_timeout) ==
    LET d1 == Max(Millis(200), d)
    IN  Min(connection_timeout \div 2, d1 * 2)

\* One connector, polled at instant 0 with its approval, delay = 0; the
\* connection_timeout is any whole number of milliseconds up to MaxTimeoutMs.
InitBackoff ==
    /\ statics \in {[max_size |-> 1, min_idle |-> None, idle_timeout |-> None,
                     max_lifetime |-> None, connection_timeout |-> Millis(t),
                     test_on_check_out |-> FALSE] : t \in 0..MaxTimeoutMs}
    /\ internals = [DefaultInternals EXCEPT !.pending_conns = 1]
    /\ connectors = SetToBag({[start |-> Some(0)]})
    /\ now = 0
    /\ pc = [c \in Callers |-> "idle"]
    /\ held = [c \in Callers |-> None]
    /\ rx = [c \in Callers |-> None]
    /\ parked = [c \in Callers |-> 0]
    /\ result = [c \in Callers |-> "none"]
    /\ ahead = [c \in Callers |-> {}]
    /\ handles = 1
    /\ delay = 0

\* connect() returned Err inside the retry window: advance the backoff,
\* delay_for(delay), and connect() again, which takes no time or ConnectMs.
BackoffRetry ==
    \E k \in Connecting :
        /\ ~(now - Unwrap(k.start) > statics.connection_timeout)
        /\ delay' = backoff(delay, statics.connection_timeout)
        /\ \E took \in {0, Millis(ConnectMs)} : now' = now + delay' + took
        /\ UNCHANGED <<handles, statics, internals, connectors, pc, held, rx,
                       parked, result, ahead>>

NextBackoff ==
    \/ BackoffRetry
    \/ ConnectGiveUp

SpecBackoff == InitBackoff /\ [][NextBackoff]_vars

\* C14: each sleep of the connector is
\* min(connection_timeout / 2, max(200ms, delay * 2)) of the previous delay,
\* starting from delay = 0 (so the first sleep is 200 ms unless the cap is
\* lower, and no sleep exceeds connection_timeout / 2).
C14_BackoffAsStated ==
    [][BackoffRetry =>
          /\ delay' = Min(statics.connection_timeout \div 2,
                          Max(Millis(200), delay * 2))
          /\ delay' <= statics.connection_timeout \div 2]_vars

\* The idle record is expired at instant t: idle for idle_timeout or more,
\* or alive for max_lifetime or more.
Expired(idle, t) ==
    \/ \E timeout \in statics.idle_timeout : t - idle.idle_start >= timeout
    \/ \E lifetime \in statics.max_lifetime : t - idle.conn.birth >= lifetime

\* The records of q that are not expired at instant t, in their order.
Survivors(q, t) ==
    LET NotExpired(r) == ~Expired(r, t)
    IN  SelectSeq(q, NotExpired)

\* C15, one step: a reaper tick leaves in idle exactly the records that are
\* not expired, in their previous order, lowers num_conns by the number
\* removed, and changes neither the waiters queue nor any caller's
\* connection, slot or position.
C15_Step ==
    Reap =>
        LET kept == Survivors(internals.conns, now)
        IN  /\ internals'.conns = kept
            /\ internals'.num_conns =
                  internals.num_conns - (Len(internals.conns) - Len(kept))
            /\ internals'.waiters = internals.waiters
            /\ held' = held /\ rx' = rx /\ pc' = pc

\* C15: a reaper tick removes exactly the expired idle records.
C15_ReapExact == [][C15_Step]_vars

\* A tick is due with work to do and things to leave alone: the older idle
\* record is expired, the newer one is not, and a sender is queued.
C15_Witness ==
    /\ Len(internals.conns) = 2
    /\ Expired(internals.conns[1], now)
    /\ ~Expired(internals.conns[2], now)
    /\ internals.waiters # <<>>

\* The first pop of a get(), or the pop of a retry, found a connection.
CheckedOut(c) ==
    pc[c] \in {"idle", "retry"} /\ held[c] = None /\ held'[c] # None

\* The idle records are in the order they became idle.
IdleInEntryOrder ==
    \A i, j \in 1..Len(internals.conns) :
        i < j => internals.conns[i].idle_start <= internals.conns[j].idle_start

\* C16, one step: a checkout that finds idle non-empty takes the front
\* record, the one idle the longest, and leaves the others in place; a
\* connection that becomes idle is appended behind all the idle records,
\* with idle_start = now.
C16_Step ==
    LET q == internals.conns
    IN  /\ \A c \in Callers :
              CheckedOut(c) =>
                  /\ held'[c] = Some(Head(q).conn)
                  /\ internals'.conns = Tail(q)
                  /\ \A i \in 1..Len(q) : Head(q).idle_start <= q[i].idle_start
        /\ Len(internals'.conns) > Len(q) =>
              \E x \in ConnsLive' :
                  /\ internals'.conns = Append(q, IdleConnFrom(x, now))
                  /\ x \in ConnsLive => \E c \in Callers : HealthyReturn(c)
                  /\ x \notin ConnsLive => ConnectorSucceeded

\* C16: the idle deque is FIFO: pop_front on checkout, push_back on return
\* and on a connector's success.
C16_IdleFifo == []IdleInEntryOrder /\ [][C16_Step]_vars

\* A checkout took the connection made first and left the one made later,
\* which had become idle at a later instant, in idle.
C16_Witness ==
    \E c \in Callers :
        /\ pc[c] = "validating"
        /\ Len(internals.conns) = 1
        /\ Unwrap(held[c]).birth < internals.conns[1].conn.birth
        /\ Unwrap(held[c]).birth < internals.conns[1].idle_start

\* ------------------------------------------------ teardown (C17)

\* The strong references to the shared state: the public handles, and the
\* clone of the pool that every dispatched add_connection future owns
\* (this = self.clone()) until it returns.
strong_count == handles + BagCardinality(connectors)

\* Weak::upgrade: Some while a strong reference exists.
upgrade_ok == strong_count > 0

\* The last public handle is dropped; get(&self) and put_back(&self) borrow
\* a handle, so no caller is inside a call or holds a connection to return.
DropPool ==
    /\ handles > 0
    /\ \A c \in Callers : pc[c] = "idle"
    /\ handles' = handles - 1
    /\ UNCHANGED <<delay, statics, internals, connectors, now, pc, held, rx,
                   parked, result, ahead>>

\* A reaper tick after the last handle was dropped: reap() runs only if the
\* upgrade of the reaper's weak reference succeeds; otherwise the task ends.
ReapOrphan ==
    /\ handles = 0
    /\ upgrade_ok
    /\ Reap

\* A connector's step after the last handle was dropped.
ConnectorOrphan ==
    /\ handles = 0
    /\ \/ ConnectorStart
       \/ ConnectOk
       \/ ConnectRetry
       \/ ConnectGiveUp

NextDrop ==
    \/ handles > 0 /\ Next
    \/ DropPool
    \/ ConnectorOrphan
    \/ ReapOrphan
    \/ handles = 0 /\ Advance

SpecDrop == Init /\ [][NextDrop]_vars

\* C17: background tasks hold only weak references: once the last public
\* handle is dropped the shared state is freed, even while connectors are
\* retrying, so every task's next upgrade fails and it exits without
\* changing any counter: from then on the pool's data never changes.
C17_WeakOnly == [][handles = 0 => internals' = internals]_vars

\* ------------------------------------------------ claims, C18 to C20

\* C18: no stranded waiter: idle is non-empty only if no live waiter (its
\* receiver alive, nothing sent to it yet) is queued in waiters.
C18_NoStrandedWaiter ==
    internals.conns # <<>> => FirstLive(internals.waiters) = 0

\* C19: conservation: num_conns is the number of connections the pool
\* owns: the idle records, the connections in callers' hands, and the
\* connections sent to a waiter's one-shot slot and not yet received.
C19_Conservation ==
    internals.num_conns =
        Len(internals.conns)
        + Cardinality({c \in Callers : held[c] # None})
        + Cardinality({c \in Callers : rx[c] # None})

\* A live waiter is queued: its sender is in waiters, nothing was sent to
\* it, it is not cancelled and its deadline has not come.
LiveWaiterParked ==
    \E c \in ParkedLive :
        /\ \E i \in 1..Len(internals.waiters) : internals.waiters[i] = c
        /\ now - parked[c] < statics.connection_timeout

\* C20: no starvation with free capacity: while a live waiter is queued and
\* num_conns + pending_conns < max_size, an approval is pending.
C20_NoStarvation ==
    (/\ LiveWaiterParked
     /\ internals.num_conns + internals.pending_conns < statics.max_size)
        => internals.pending_conns >= 1

====
